---- MODULE Spec2Model ----
(***************************************************************************)
(* rusdis: a minimal server speaking RESP.                                 *)
(*                                                                         *)
(* The module models                                                       *)
(*   - the RESP codec of src/resp.rs (ser, parse and its helpers) as       *)
(*     operators over byte sequences,                                      *)
(*   - the command layer of src/commands.rs and the store of src/store.rs  *)
(*     as operators over a key-value function,                             *)
(*   - the per-connection loop of src/main.rs (read, parse, execute, write)*)
(*     as a state machine with one process per connection sharing the      *)
(*     store under a reader/writer lock.                                   *)
(*                                                                         *)
(* Bytes are integers 0..255.  A Rust String is a sequence of code points; *)
(* into_bytes / from_utf8 convert between the two (code points up to       *)
(* U+07FF, i.e. one- and two-byte encodings).                              *)
(***************************************************************************)
EXTENDS Integers, Sequences, FiniteSets, TLC

(***************************************************************************)
(* Byte values the codec compares against.                                 *)
(***************************************************************************)
CR == 13
LF == 10
SP == 32
PLUS == 43
MINUS == 45
COLON == 58
STAR == 42
DOLLAR == 36
ZERO == 48

\* Text literals of the program, as code points.
strPING == <<80, 73, 78, 71>>
strSET == <<83, 69, 84>>
strGET == <<71, 69, 84>>
strDEL == <<68, 69, 76>>
strPONG == <<80, 79, 78, 71>>
strOK == <<79, 75>>
strUnknownCommand == <<85, 110, 107, 110, 111, 119, 110, 32, 99, 111, 109, 109, 97, 110, 100>>
strNoKeyProvided == <<78, 111, 32, 107, 101, 121, 32, 112, 114, 111, 118, 105, 100, 101, 100>>
strNoValueProvided == <<78, 111, 32, 118, 97, 108, 117, 101, 32, 112, 114, 111, 118, 105, 100, 101, 100>>

(***************************************************************************)
(* enum Data                                                               *)
(***************************************************************************)
Data(t, s, i, a) == [t |-> t, s |-> s, i |-> i, a |-> a]
DString(s) == Data("String", s, 0, <<>>)
DError(s) == Data("Error", s, 0, <<>>)
DInteger(i) == Data("Integer", <<>>, i, <<>>)
DBulkString(s) == Data("BulkString", s, 0, <<>>)
DArray(a) == Data("Array", <<>>, 0, a)
DNullBulkString == Data("NullBulkString", <<>>, 0, <<>>)
DNullArray == Data("NullArray", <<>>, 0, <<>>)
\* placeholder of a result that carries no value
NoData == Data("NoData", <<>>, 0, <<>>)

(***************************************************************************)
(* String <-> bytes (UTF-8) and i64 <-> text                               *)
(***************************************************************************)
RECURSIVE into_bytes(_)
\* String::into_bytes: the UTF-8 encoding of a sequence of code points.
into_bytes(str) ==
    IF str = <<>> THEN <<>>
    ELSE LET c == Head(str) IN
         (IF c < 128 THEN <<c>> ELSE <<192 + (c \div 64), 128 + (c % 64)>>)
            \o into_bytes(Tail(str))

RECURSIVE from_utf8(_)
\* String::from_utf8: [ok, s]; ok = FALSE is FromUtf8Error.  Exact for bytes
\* outside 224..244 (the lead bytes of three- and four-byte encodings).
from_utf8(bytes) ==
    IF bytes = <<>> THEN [ok |-> TRUE, s |-> <<>>]
    ELSE LET b == Head(bytes) IN
         IF b < 128
         THEN LET r == from_utf8(Tail(bytes)) IN
              [ok |-> r.ok, s |-> IF r.ok THEN <<b>> \o r.s ELSE <<>>]
         ELSE IF b >= 194 /\ b <= 223 /\ Len(bytes) >= 2
                 /\ bytes[2] >= 128 /\ bytes[2] <= 191
         THEN LET r == from_utf8(Tail(Tail(bytes))) IN
              [ok |-> r.ok,
               s |-> IF r.ok THEN <<(b - 192) * 64 + (bytes[2] - 128)>> \o r.s
                              ELSE <<>>]
         ELSE [ok |-> FALSE, s |-> <<>>]

\* str.len() taken as the number of chars instead of bytes
str_len_chars(str) == Len(str)

\* str.len(): the length in bytes
str_len(str) == Len(into_bytes(str))

RECURSIVE format_nat(_)
format_nat(n) ==
    IF n < 10 THEN <<ZERO + n>>
    ELSE format_nat(n \div 10) \o <<ZERO + (n % 10)>>

\* format!("{}", int) of an i64 or usize
format_int(n) == IF n < 0 THEN <<MINUS>> \o format_nat(0 - n) ELSE format_nat(n)

IsDigit(c) == c >= ZERO /\ c <= ZERO + 9

RECURSIVE digits_value(_, _)
digits_value(str, acc) ==
    IF str = <<>> THEN acc
    ELSE digits_value(Tail(str), acc * 10 + (Head(str) - ZERO))

\* str::parse::<i64>: an optional sign, then one or more decimal digits.
\* [ok, i]; ok = FALSE is ParseIntError.  (The digit strings of the bounded
\* inputs are far shorter than the 19 digits at which i64 overflows.)
parse_i64(str) ==
    LET signed == str # <<>> /\ Head(str) \in {PLUS, MINUS}
        digits == IF signed THEN Tail(str) ELSE str
    IN  IF digits = <<>> \/ \E k \in 1..Len(digits) : ~IsDigit(digits[k])
        THEN [ok |-> FALSE, i |-> 0]
        ELSE [ok |-> TRUE,
              i |-> IF signed /\ Head(str) = MINUS
                    THEN 0 - digits_value(digits, 0)
                    ELSE digits_value(digits, 0)]

RECURSIVE split_space(_, _)
\* str.split(' ').filter(|slice| !slice.is_empty()): cur is the token being read
split_space(str, cur) ==
    IF str = <<>> THEN (IF cur = <<>> THEN <<>> ELSE <<cur>>)
    ELSE IF Head(str) = SP
         THEN (IF cur = <<>> THEN <<>> ELSE <<cur>>) \o split_space(Tail(str), <<>>)
         ELSE split_space(Tail(str), Append(cur, Head(str)))

(***************************************************************************)
(* Serializer                                                              *)
(***************************************************************************)
CRLF == <<CR, LF>>

RECURSIVE ser(_)
RECURSIVE ser_elements(_)
ser_elements(arr) ==
    IF arr = <<>> THEN <<>> ELSE ser(Head(arr)) \o ser_elements(Tail(arr))

ser(data) ==
    CASE data.t = "String" -> <<PLUS>> \o into_bytes(data.s) \o CRLF
      [] data.t = "Error" -> <<MINUS>> \o into_bytes(data.s) \o CRLF
      [] data.t = "Integer" -> <<COLON>> \o into_bytes(format_int(data.i)) \o CRLF
      [] data.t = "BulkString" ->
            <<DOLLAR>> \o into_bytes(format_int(str_len(data.s))) \o CRLF
                \o into_bytes(data.s) \o CRLF
      [] data.t = "Array" ->
            <<STAR>> \o into_bytes(format_int(Len(data.a))) \o CRLF
                \o ser_elements(data.a)
      [] data.t = "NullBulkString" -> <<DOLLAR, MINUS, ZERO + 1>> \o CRLF
      [] data.t = "NullArray" -> <<STAR, MINUS, ZERO + 1>> \o CRLF

ser_string(str) == ser(DString(str))
ser_error(str) == ser(DError(str))
ser_int(int) == ser(DInteger(int))
ser_bulk_string(str) == ser(DBulkString(str))
ser_null_bulk_string == ser(DNullBulkString)

(***************************************************************************)
(* Parser.  The reader is the sequence of bytes not yet consumed.  Every   *)
(* operator returns [k, v, e, rest]: k is "ok" (Ok of a helper), "some" /  *)
(* "none" (Ok(Some) / Ok(None) of parse) or "err"; e names the ParseError. *)
(***************************************************************************)
Res(k, v, e, rest) == [k |-> k, v |-> v, e |-> e, rest |-> rest]
Ok(v, rest) == Res("ok", v, "", rest)
Err(e, rest) == Res("err", NoData, e, rest)
OkSome(r) == IF r.k = "ok" THEN [r EXCEPT !.k = "some"] ELSE r
OkNone(rest) == Res("none", NoData, "", rest)

SetMin(S) == CHOOSE x \in S : \A y \in S : x <= y

\* read_crlf: read_exact of two bytes, which must be CR LF
read_crlf(reader) ==
    IF Len(reader) < 2 THEN Err("Io", <<>>)
    ELSE IF reader[1] = CR /\ reader[2] = LF
         THEN Ok(NoData, SubSeq(reader, 3, Len(reader)))
         ELSE Err("MissingCRLF", SubSeq(reader, 3, Len(reader)))

\* read_until_crlf: bytes are read one at a time into `write` until its last
\* two bytes are CR LF or the reader is exhausted; v.s is the decoded text.
read_until_crlf(reader) ==
    LET ends == {k \in 2..Len(reader) : reader[k - 1] = CR /\ reader[k] = LF}
        n == IF ends = {} THEN Len(reader) ELSE SetMin(ends)
        write == IF ends = {} THEN reader ELSE SubSeq(reader, 1, n - 2)
        rest == SubSeq(reader, n + 1, Len(reader))
        string == from_utf8(write)
    IN  IF string.ok THEN Ok(DString(string.s), rest) ELSE Err("Utf8", rest)

\* read_i64: v.i is the number
read_i64(reader) ==
    LET line == read_until_crlf(reader) IN
    IF line.k = "err" THEN line
    ELSE LET int == parse_i64(line.v.s) IN
         IF int.ok THEN Ok(DInteger(int.i), line.rest) ELSE Err("Int", line.rest)

parse_string(reader) == read_until_crlf(reader)

parse_error(reader) ==
    LET line == read_until_crlf(reader) IN
    IF line.k = "err" THEN line ELSE Ok(DError(line.v.s), line.rest)

parse_integer(reader) == read_i64(reader)

parse_bulk_string(reader) ==
    LET length == read_i64(reader) IN
    IF length.k = "err" THEN length
    ELSE IF length.v.i = -1 THEN Ok(DNullBulkString, length.rest)
    ELSE IF length.v.i < 0 THEN Err("NegativeInt", length.rest)
    ELSE IF Len(length.rest) < length.v.i THEN Err("Io", <<>>)
    ELSE LET buf == SubSeq(length.rest, 1, length.v.i)
             after == SubSeq(length.rest, length.v.i + 1, Len(length.rest))
             crlf == read_crlf(after)
             string == from_utf8(buf)
         IN  IF crlf.k = "err" THEN crlf
             ELSE IF string.ok THEN Ok(DBulkString(string.s), crlf.rest)
             ELSE Err("Utf8", crlf.rest)

RECURSIVE map_tokens(_)
\* the closure of parse_pipeline: a token is an Integer when it parses as one
map_tokens(tokens) ==
    IF tokens = <<>> THEN <<>>
    ELSE LET slice == Head(tokens)
             int == parse_i64(slice)
         IN  <<IF int.ok THEN DInteger(int.i) ELSE DString(slice)>>
                \o map_tokens(Tail(tokens))

\* parse_pipeline: `string.extend(result)` appends the line when read_until_crlf
\* is Ok and appends nothing when it is Err; the function never fails.
parse_pipeline(reader, first) ==
    LET line == read_until_crlf(reader)
        string == <<first>> \o (IF line.k = "ok" THEN line.v.s ELSE <<>>)
    IN  Ok(DArray(map_tokens(split_space(string, <<>>))), line.rest)

RECURSIVE parse(_, _)
RECURSIVE parse_items(_, _, _)

\* the while loop of parse_array
parse_items(reader, length, results) ==
    IF Len(results) < length
    THEN LET item == parse(reader, FALSE) IN
         IF item.k = "err" THEN item
         ELSE IF item.k = "some"
              THEN parse_items(item.rest, length, Append(results, item.v))
              ELSE Ok(DArray(results), item.rest)
    ELSE Ok(DArray(results), reader)

parse_array(reader) ==
    LET length == read_i64(reader) IN
    IF length.k = "err" THEN length
    ELSE IF length.v.i = -1 THEN Ok(DNullArray, length.rest)
    ELSE IF length.v.i < 0 THEN Err("NegativeInt", length.rest)
    ELSE parse_items(length.rest, length.v.i, <<>>)

parse(reader, allow_pipeline) ==
    IF reader = <<>> THEN OkNone(reader)
    ELSE LET b == Head(reader)
             r == Tail(reader)
         IN  CASE b = PLUS -> OkSome(parse_string(r))
               [] b = MINUS -> OkSome(parse_error(r))
               [] b = COLON -> OkSome(parse_integer(r))
               [] b = STAR -> OkSome(parse_array(r))
               [] b = DOLLAR -> OkSome(parse_bulk_string(r))
               [] OTHER -> IF allow_pipeline THEN OkSome(parse_pipeline(r, b))
                           ELSE OkNone(r)

(***************************************************************************)
(* Store (src/store.rs): a function from the keys present to their values. *)
(***************************************************************************)
None == [some |-> FALSE, s |-> <<>>]
Some(s) == [some |-> TRUE, s |-> s]

HashMapStore_new == [k \in {} |-> <<>>]

HashMapStore_get(data, key) ==
    IF key \in DOMAIN data THEN Some(data[key]) ELSE None

\* an insert that keeps the value of a key already present
HashMapStore_set_keep(data, key, value) ==
    [k \in DOMAIN data \cup {key} |-> IF k \in DOMAIN data THEN data[k] ELSE value]

HashMapStore_set(data, key, value) ==
    [k \in DOMAIN data \cup {key} |-> IF k = key THEN value ELSE data[k]]

RECURSIVE HashMapStore_del(_, _)
RECURSIVE HashMapStore_del_count_all(_, _)
\* a del that counts every key it is given, present or not
HashMapStore_del_count_all(data, keys) ==
    IF keys = <<>> THEN [data |-> data, n |-> 0]
    ELSE LET key == Head(keys)
             removed == [k \in DOMAIN data \ {key} |-> data[k]]
             r == HashMapStore_del_count_all(removed, Tail(keys))
         IN  [data |-> r.data, n |-> 1 + r.n]

\* [data, n]: the map after the keys were visited in order, and the sum of
\* the 1s (key present, removed) and 0s (key absent)
HashMapStore_del(data, keys) ==
    IF keys = <<>> THEN [data |-> data, n |-> 0]
    ELSE LET key == Head(keys)
             present == key \in DOMAIN data
             removed == IF present
                        THEN [k \in DOMAIN data \ {key} |-> data[k]]
                        ELSE data
             r == HashMapStore_del(removed, Tail(keys))
         IN  [data |-> r.data, n |-> (IF present THEN 1 ELSE 0) + r.n]

(***************************************************************************)
(* Command layer (src/commands.rs).  index is 0-based as in the source.    *)
(***************************************************************************)
get_arg(args, index) ==
    IF index + 1 <= Len(args) /\ args[index + 1].t \in {"String", "BulkString"}
    THEN Some(args[index + 1].s)
    ELSE None

\* a get that takes its key from element 0, the command name
get_key_at_0(data, args) ==
    LET key == get_arg(args, 0) IN
    IF key.some
    THEN LET found == HashMapStore_get(data, key.s) IN
         IF found.some THEN ser_bulk_string(found.s) ELSE ser_null_bulk_string
    ELSE ser(DError(strNoKeyProvided))

\* get: the reply bytes
get(data, args) ==
    LET key == get_arg(args, 1) IN
    IF key.some
    THEN LET found == HashMapStore_get(data, key.s) IN
         IF found.some THEN ser_bulk_string(found.s) ELSE ser_null_bulk_string
    ELSE ser(DError(strNoKeyProvided))

\* a set that stores the empty text when the value is missing
set_without_value_check(data, args) ==
    LET key == get_arg(args, 1)
        value == get_arg(args, 2)
    IN  IF key.some
        THEN [out |-> ser_string(strOK),
              data |-> HashMapStore_set(data, key.s, value.s)]
        ELSE [out |-> ser_error(strNoKeyProvided), data |-> data]

\* set: [out, data]: the reply bytes and the store afterwards
set(data, args) ==
    LET key == get_arg(args, 1)
        value == get_arg(args, 2)
    IN  IF key.some
        THEN IF value.some
             THEN [out |-> ser_string(strOK),
                   data |-> HashMapStore_set(data, key.s, value.s)]
             ELSE [out |-> ser_error(strNoValueProvided), data |-> data]
        ELSE [out |-> ser_error(strNoKeyProvided), data |-> data]

RECURSIVE del_keys(_)
\* the fold of del over args[1..]: the texts of the String / BulkString elements
del_keys(rest) ==
    IF rest = <<>> THEN <<>>
    ELSE (IF Head(rest).t \in {"String", "BulkString"} THEN <<Head(rest).s>> ELSE <<>>)
            \o del_keys(Tail(rest))

\* del: [out, data]
del(data, args) ==
    LET keys == del_keys(Tail(args))
        deleted == HashMapStore_del(data, keys)
    IN  [out |-> ser_int(deleted.n), data |-> deleted.data]

ping == ser_string(strPONG)

RECURSIVE pending_commands(_)
RECURSIVE pending_items(_)
\* the else branch of execute_commands: the nested Arrays, in element order
pending_items(items) ==
    IF items = <<>> THEN <<>>
    ELSE (IF Head(items).t = "Array" THEN pending_commands(Head(items).a) ELSE <<>>)
            \o pending_items(Tail(items))

\* an execute_commands that takes every array for one command
pending_whole(arr) == <<arr>>

\* execute_commands(arr): the request arrays it dispatches, in the order the
\* recursion reaches them (an array whose element 0 is a string is one command)
pending_commands(arr) ==
    IF get_arg(arr, 0).some THEN <<arr>> ELSE pending_items(arr)

(***************************************************************************)
(* Server state (src/main.rs)                                              *)
(***************************************************************************)
VARIABLES
    store,      \* the HashMapStore behind Arc<RwLock<..>>
    writer,     \* the connection holding the write guard, 0 when none
    readers,    \* the connections holding a read guard
    pc,         \* per connection: "new" (not accepted yet), "read", "exec",
                \* "locked", "closed"
    buffer,     \* per connection: what the last stream.read delivered, as an
                \* index into ChunkList (0 before the first read)
    done,       \* per connection: how many commands execute_commands has
                \* dispatched for this buffer (each appended one reply to acc)
    results,    \* per connection: the Vec `results` (acc) of the current read
    sent,       \* per connection: the bytes written to its stream since its
                \* last read (one write_all per read that parsed to an Array)
    exit,       \* per connection: why its task ended ("" while it runs)
    nreads,     \* number of successful non-empty reads so far, all connections
    messages,   \* for each buffer a read can deliver, the outcome of
                \* resp::parse(&mut buffer[..n].iter(), true); fixed by Init
    commands,   \* for each buffer a read can deliver, the request arrays that
                \* execute_commands dispatches for it, in order; fixed by Init
    lastSet,    \* per key: the value of the last executed SET not followed by
                \* a DEL of the key (history variable)
    hadUnknown  \* per connection: whether it was answered "Unknown command"
                \* at least once (history variable)

serverVars == <<store, writer, readers, pc, buffer, done, results, sent, exit,
                nreads, messages, commands, lastSet, hadUnknown>>

\* Bounds of the server model
NumConns == 2
MaxReads == 3

Conns == 1..NumConns

\* texts the clients use
kA == <<97>>
kB == <<98>>
vX == <<120>>
vY == <<121>>

RECURSIVE bulk_strings(_)
bulk_strings(texts) ==
    IF texts = <<>> THEN <<>>
    ELSE <<DBulkString(Head(texts))>> \o bulk_strings(Tail(texts))

\* a client's RESP request: an Array of BulkStrings
Request(texts) == ser(DArray(bulk_strings(texts)))
\* a client's inline request: the text and CR LF
Inline(text) == into_bytes(text) \o CRLF

inlSetA1 == Inline(strSET \o <<SP>> \o kA \o <<SP, ZERO + 1>>)
inlGetA == Inline(strGET \o <<SP>> \o kA)
inlDelA1A == Inline(strDEL \o <<SP>> \o kA \o <<SP, ZERO + 1, SP>> \o kA)
inlPing == Inline(strPING)
reqSetAX == Request(<<strSET, kA, vX>>)
reqSetAY == Request(<<strSET, kA, vY>>)
reqSetBX == Request(<<strSET, kB, vX>>)
reqGetA == Request(<<strGET, kA>>)
reqDelAB == Request(<<strDEL, kA, kB>>)
\* a bulk string whose length field is not a number
reqBadLength == <<DOLLAR, 97>> \o CRLF
pipelineSetGet == <<inlSetA1, inlGetA>>
\* a command name the server does not know
strFOO == <<70, 79, 79>>
inlFoo == Inline(strFOO)
\* requests lacking arguments
reqSetNoKey == Request(<<strSET>>)
reqSetNoValue == Request(<<strSET, kA>>)
reqGetNoKey == Request(<<strGET>>)
\* a batch: an Array whose elements are request Arrays
batchCommands ==
    <<  DArray(bulk_strings(<<strSET, kA, vX>>)),
        DArray(bulk_strings(<<strGET, kA>>)),
        DArray(bulk_strings(<<strDEL, kA>>)),
        DArray(bulk_strings(<<strPING>>))  >>
reqBatch == ser(DArray(batchCommands))
\* the empty Array
reqEmpty == ser(DArray(<<>>))
\* a well-formed value that is not an Array
respOK == ser(DString(strOK))

\* what one socket read can deliver: a sequence of requests, back to back
ChunkList ==
    <<  <<reqSetAX>>, <<reqSetAY>>, <<reqSetBX>>, <<reqGetA>>, <<reqDelAB>>,
        <<inlDelA1A>>, <<inlPing>>, <<reqBadLength>>, pipelineSetGet,
        <<inlFoo>>, <<reqSetNoKey>>, <<reqSetNoValue>>, <<reqGetNoKey>>,
        <<reqBatch>>, <<reqEmpty>>, <<respOK>>  >>

ChunkIds == 1..Len(ChunkList)

RECURSIVE Concat(_)
Concat(seqs) == IF seqs = <<>> THEN <<>> ELSE Head(seqs) \o Concat(Tail(seqs))

\* the index of a buffer in ChunkList
IdOf(chunk) == CHOOSE i \in ChunkIds : ChunkList[i] = chunk

\* the traffic of the clients that use the store: well-formed requests, a
\* pipeline, and a malformed request
StoreTraffic ==
    {IdOf(<<r>>) : r \in {reqSetAX, reqSetAY, reqSetBX, reqGetA, reqDelAB,
                          inlDelA1A, inlPing, reqBadLength}}
        \cup {IdOf(pipelineSetGet)}

\* the traffic of the clients that send unusual requests: unknown commands,
\* missing arguments, batches, values that are not Arrays
OddTraffic ==
    {IdOf(<<r>>) : r \in {inlFoo, reqSetNoKey, reqSetNoValue, reqGetNoKey,
                          reqBatch, reqEmpty, respOK, inlPing}}

\* the bytes of buffer[..n]
BufferBytes(i) == Concat(ChunkList[i])

\* what main looks at in a message: Ok(Some(..)), Ok(None) or Err, and the
\* variant of the value
Outcome(message) ==
    [k |-> message.k, e |-> message.e, v |-> [t |-> message.v.t]]

\* let message = resp::parse(&mut buffer[..n].iter(), true), for every buffer
Messages == [i \in ChunkIds |-> Outcome(parse(BufferBytes(i), TRUE))]

\* if let Ok(Some(resp::Data::Array(arr))) = message
IsArray(message) == message.k = "some" /\ message.v.t = "Array"

\* the request arrays execute_commands(arr, ..) dispatches for each buffer
Pending(i) == commands[i]

\* execute_commands(arr, ..) for the arr of every buffer
Commands ==
    [i \in ChunkIds |->
        LET message == parse(BufferBytes(i), TRUE)
        IN  IF IsArray(message) THEN pending_commands(message.v.a) ELSE <<>>]

NoKeys == [k \in {} |-> <<>>]

Init ==
    /\ store = HashMapStore_new
    /\ writer = 0
    /\ readers = {}
    /\ pc = [c \in Conns |-> "new"]
    /\ buffer = [c \in Conns |-> 0]
    /\ done = [c \in Conns |-> 0]
    /\ results = [c \in Conns |-> <<>>]
    /\ sent = [c \in Conns |-> <<>>]
    /\ exit = [c \in Conns |-> ""]
    /\ nreads = 0
    /\ messages = Messages
    /\ commands = Commands
    /\ lastSet = NoKeys
    /\ hadUnknown = [c \in Conns |-> FALSE]

\* RwLock: write() is granted when no guard is held, read() when no write
\* guard is held
\* a write() that does not wait for the read guards
can_write_despite_readers(c) == writer = 0

\* a lock that a panicking task poisons
can_write_unless_poisoned(c) ==
    writer = 0 /\ readers = {} /\ \A d \in Conns : exit[d] # "write_panic"

can_write(c) == writer = 0 /\ readers = {}
can_read(c) == writer = 0

\* the commands of the current buffer not yet dispatched
Queue(c) ==
    IF buffer[c] = 0 THEN <<>>
    ELSE SubSeq(Pending(buffer[c]), done[c] + 1, Len(Pending(buffer[c])))

\* the request array being dispatched and its command name
Args(c) == Pending(buffer[c])[done[c] + 1]
CmdName(c) == get_arg(Args(c), 0).s

\* listener.accept() returns a stream and main spawns the task that serves it
Accept(c) ==
    /\ pc[c] = "new"
    /\ pc' = [pc EXCEPT ![c] = "read"]
    /\ UNCHANGED <<store, writer, readers, buffer, done, results, sent, exit,
                   nreads, messages, commands, hadUnknown, lastSet>>

\* stream.read returns Ok(n), n > 0: parse the buffer once; an Array is handed
\* to execute_commands, anything else goes back to read
Read(c, i) ==
    /\ pc[c] = "read"
    /\ nreads < MaxReads
    /\ pc' = [pc EXCEPT ![c] = IF IsArray(messages[i]) THEN "exec" ELSE "read"]
    /\ buffer' = [buffer EXCEPT ![c] = i]
    /\ done' = [done EXCEPT ![c] = 0]
    /\ results' = [results EXCEPT ![c] = <<>>]
    /\ sent' = [sent EXCEPT ![c] = <<>>]
    /\ nreads' = nreads + 1
    /\ UNCHANGED <<store, writer, readers, exit, messages, commands, hadUnknown, lastSet>>

\* the task of connection c ends: its locals and its stream are dropped
Dropped(c) ==
    /\ buffer' = [buffer EXCEPT ![c] = 0]
    /\ done' = [done EXCEPT ![c] = 0]
    /\ results' = [results EXCEPT ![c] = <<>>]
    /\ sent' = [sent EXCEPT ![c] = <<>>]

\* a loop that goes on reading after the peer closed the connection
ReadClosed_continue(c) ==
    /\ pc[c] = "read"
    /\ exit' = [exit EXCEPT ![c] = "eof"]
    /\ UNCHANGED <<store, writer, readers, pc, buffer, done, results, sent,
                   nreads, messages, commands, hadUnknown, lastSet>>

\* stream.read returns Ok(0): the peer closed the connection
ReadClosed(c) ==
    /\ pc[c] = "read"
    /\ pc' = [pc EXCEPT ![c] = "closed"]
    /\ exit' = [exit EXCEPT ![c] = "eof"]
    /\ Dropped(c)
    /\ UNCHANGED <<store, writer, readers, nreads, messages, commands, hadUnknown,
                   lastSet>>

\* stream.read returns Err
ReadFailed(c) ==
    /\ pc[c] = "read"
    /\ pc' = [pc EXCEPT ![c] = "closed"]
    /\ exit' = [exit EXCEPT ![c] = "read_error"]
    /\ Dropped(c)
    /\ UNCHANGED <<store, writer, readers, nreads, messages, commands, hadUnknown,
                   lastSet>>

\* an unknown command answered as a SimpleString
unknown_command_as_string == ser_string(strUnknownCommand)

\* _ => resp::ser_error("Unknown command")
unknown_command == ser_error(strUnknownCommand)

\* "PING" and the `_` arm of execute_commands: no store access
ExecPlain(c) ==
    /\ pc[c] = "exec"
    /\ Queue(c) # <<>>
    /\ CmdName(c) \notin {strSET, strGET, strDEL}
    /\ LET res == IF CmdName(c) = strPING THEN ping ELSE unknown_command
       IN  results' = [results EXCEPT ![c] = @ \o res]
    /\ done' = [done EXCEPT ![c] = @ + 1]
    /\ hadUnknown' = [hadUnknown EXCEPT ![c] = @ \/ CmdName(c) # strPING]
    /\ UNCHANGED <<store, writer, readers, pc, buffer, sent, exit, nreads,
                   messages, commands, lastSet>>

\* store.write().await of the "SET" and "DEL" arms
AcquireWrite(c) ==
    /\ pc[c] = "exec"
    /\ Queue(c) # <<>>
    /\ CmdName(c) \in {strSET, strDEL}
    /\ can_write(c)
    /\ writer' = c
    /\ pc' = [pc EXCEPT ![c] = "locked"]
    /\ UNCHANGED <<store, readers, buffer, done, results, sent, exit, nreads,
                   messages, commands, hadUnknown, lastSet>>

\* store.read().await of the "GET" arm
AcquireRead(c) ==
    /\ pc[c] = "exec"
    /\ Queue(c) # <<>>
    /\ CmdName(c) = strGET
    /\ can_read(c)
    /\ readers' = readers \cup {c}
    /\ pc' = [pc EXCEPT ![c] = "locked"]
    /\ UNCHANGED <<store, writer, buffer, done, results, sent, exit, nreads,
                   messages, commands, hadUnknown, lastSet>>

\* commands::set under the write guard, the guard dropped, acc.extend(&res)
ExecSet(c) ==
    /\ pc[c] = "locked"
    /\ CmdName(c) = strSET
    /\ LET args == Args(c)
           r == set(store, args)
       IN  /\ store' = r.data
           /\ results' = [results EXCEPT ![c] = @ \o r.out]
           /\ lastSet' = IF get_arg(args, 1).some /\ get_arg(args, 2).some
                         THEN [k \in DOMAIN lastSet \cup {get_arg(args, 1).s} |->
                                 IF k = get_arg(args, 1).s THEN get_arg(args, 2).s
                                 ELSE lastSet[k]]
                         ELSE lastSet
    /\ writer' = 0
    /\ done' = [done EXCEPT ![c] = @ + 1]
    /\ pc' = [pc EXCEPT ![c] = "exec"]
    /\ UNCHANGED <<readers, buffer, sent, exit, nreads, messages, commands, hadUnknown>>

\* commands::get under a read guard that is kept after the command
ExecGet_keeping_guard(c) ==
    /\ pc[c] = "locked"
    /\ CmdName(c) = strGET
    /\ results' = [results EXCEPT ![c] = @ \o get(store, Args(c))]
    /\ done' = [done EXCEPT ![c] = @ + 1]
    /\ pc' = [pc EXCEPT ![c] = "exec"]
    /\ UNCHANGED <<store, writer, readers, buffer, sent, exit, nreads, messages, commands,
                   hadUnknown, lastSet>>

\* commands::get under a read guard, the guard dropped, acc.extend(&res)
ExecGet(c) ==
    /\ pc[c] = "locked"
    /\ CmdName(c) = strGET
    /\ results' = [results EXCEPT ![c] = @ \o get(store, Args(c))]
    /\ readers' = readers \ {c}
    /\ done' = [done EXCEPT ![c] = @ + 1]
    /\ pc' = [pc EXCEPT ![c] = "exec"]
    /\ UNCHANGED <<store, writer, buffer, sent, exit, nreads, messages, commands,
                   hadUnknown, lastSet>>

\* the string elements after the command name
ListedKeys(args) == {del_keys(Tail(args))[j] : j \in 1..Len(del_keys(Tail(args)))}

\* commands::del under the write guard, the guard dropped, acc.extend(&res)
ExecDel(c) ==
    /\ pc[c] = "locked"
    /\ CmdName(c) = strDEL
    /\ LET args == Args(c)
           r == del(store, args)
       IN  /\ store' = r.data
           /\ results' = [results EXCEPT ![c] = @ \o r.out]
           /\ lastSet' = [k \in DOMAIN lastSet \ ListedKeys(args) |-> lastSet[k]]
    /\ writer' = 0
    /\ done' = [done EXCEPT ![c] = @ + 1]
    /\ pc' = [pc EXCEPT ![c] = "exec"]
    /\ UNCHANGED <<readers, buffer, sent, exit, nreads, messages, commands, hadUnknown>>

\* execute_commands has returned: write_all(&results) and flush succeed and
\* results is dropped at the end of the iteration
Write(c) ==
    /\ pc[c] = "exec"
    /\ Queue(c) = <<>>
    /\ sent' = [sent EXCEPT ![c] = results[c]]
    /\ results' = [results EXCEPT ![c] = <<>>]
    /\ pc' = [pc EXCEPT ![c] = "read"]
    /\ UNCHANGED <<store, writer, readers, buffer, done, exit, nreads,
                   messages, commands, hadUnknown, lastSet>>

\* write_all or flush returns Err: unwrap() panics and the task ends
WriteFailed(c) ==
    /\ pc[c] = "exec"
    /\ Queue(c) = <<>>
    /\ pc' = [pc EXCEPT ![c] = "closed"]
    /\ exit' = [exit EXCEPT ![c] = "write_panic"]
    /\ Dropped(c)
    /\ UNCHANGED <<store, writer, readers, nreads, messages, commands, hadUnknown,
                   lastSet>>

(***************************************************************************)
(* Codec state: one value or one input taken through ser and parse.        *)
(***************************************************************************)
VARIABLES
    cphase,     \* "value", "bytes", "parsed", "reser", "reparsed"
    corigin,    \* "value": the run starts from a Data value; "bytes": from input
    cval,       \* the value the run starts from (NoData when corigin = "bytes")
    cbytes,     \* the bytes handed to parse
    callow,     \* allow_pipeline of the parse calls
    cres,       \* parse(cbytes, callow)
    cbytes2,    \* ser of the parsed value
    cres2       \* parse(cbytes2, callow)

codecVars == <<cphase, corigin, cval, cbytes, callow, cres, cbytes2, cres2>>

vars == <<serverVars, codecVars>>

\* Bounds of the codec inputs
MaxSize == 4
MaxFragments == 3

\* texts and bytes used to build inputs: "a", "1", and U+00FF, whose UTF-8
\* encoding has two bytes and whose value, as a byte, is never valid UTF-8
txtA == <<97>>
txtOne == <<49>>
txtYuml == <<255>>

LeafValues ==
    {DString(<<>>), DString(txtA), DError(txtA), DInteger(-12),
     DBulkString(<<>>), DBulkString(txtYuml \o CRLF),
     DNullBulkString, DNullArray}

RECURSIVE ValuesOfSize(_)
RECURSIVE SeqsOfSize(_)
\* the sequences of values whose sizes add up to m
SeqsOfSize(m) ==
    IF m = 0 THEN {<<>>}
    ELSE UNION {{<<v>> \o s : v \in ValuesOfSize(k), s \in SeqsOfSize(m - k)} :
                    k \in 1..m}

\* the well-formed values with exactly n nodes (an Array counts one node)
ValuesOfSize(n) ==
    IF n = 0 THEN {}
    ELSE (IF n = 1 THEN LeafValues ELSE {}) \cup {DArray(s) : s \in SeqsOfSize(n - 1)}

\* the well-formed values of at most max nodes
WireValues(max) == UNION {ValuesOfSize(n) : n \in 1..max}

Fragments ==
    {<<STAR>>, <<DOLLAR>>, <<PLUS>>, <<MINUS>>, <<COLON>>, txtOne, txtA,
     <<SP>>, CRLF, txtYuml}

RECURSIVE InputsOfLen(_)
InputsOfLen(n) ==
    IF n = 0 THEN {<<>>}
    ELSE {f \o r : f \in Fragments, r \in InputsOfLen(n - 1)}

\* the byte strings made of at most max fragments
Inputs(max) == UNION {InputsOfLen(n) : n \in 0..max}

NoRes == Res("", NoData, "", <<>>)

\* the server is not running while the codec is exercised
ServerIdle ==
    /\ store = HashMapStore_new /\ writer = 0 /\ readers = {}
    /\ pc = [c \in Conns |-> "closed"]
    /\ buffer = [c \in Conns |-> 0]
    /\ done = [c \in Conns |-> 0]
    /\ results = [c \in Conns |-> <<>>]
    /\ sent = [c \in Conns |-> <<>>]
    /\ exit = [c \in Conns |-> ""]
    /\ nreads = 0
    /\ messages = <<>>
    /\ commands = <<>>
    /\ lastSet = NoKeys
    /\ hadUnknown = [c \in Conns |-> FALSE]

\* the codec is not exercised while the server runs
CodecIdle ==
    /\ cphase = "idle" /\ corigin = "" /\ cval = NoData /\ cbytes = <<>>
    /\ callow = FALSE /\ cres = NoRes /\ cbytes2 = <<>> /\ cres2 = NoRes

CodecInit ==
    /\ ServerIdle
    /\ callow \in BOOLEAN
    /\ cres = NoRes /\ cbytes2 = <<>> /\ cres2 = NoRes
    /\ \/ corigin = "value" /\ cphase = "value" /\ cval \in WireValues(MaxSize)
          /\ cbytes = <<>>
       \/ corigin = "bytes" /\ cphase = "bytes" /\ cval = NoData
          /\ cbytes \in Inputs(MaxFragments)

CodecSerialize ==
    /\ cphase = "value"
    /\ cbytes' = ser(cval)
    /\ cphase' = "bytes"
    /\ UNCHANGED <<corigin, cval, callow, cres, cbytes2, cres2>>

CodecParse ==
    /\ cphase = "bytes"
    /\ cres' = parse(cbytes, callow)
    /\ cphase' = "parsed"
    /\ UNCHANGED <<corigin, cval, cbytes, callow, cbytes2, cres2>>

CodecReserialize ==
    /\ cphase = "parsed"
    /\ cres.k = "some"
    /\ cbytes2' = ser(cres.v)
    /\ cphase' = "reser"
    /\ UNCHANGED <<corigin, cval, cbytes, callow, cres, cres2>>

CodecReparse ==
    /\ cphase = "reser"
    /\ cres2' = parse(cbytes2, callow)
    /\ cphase' = "reparsed"
    /\ UNCHANGED <<corigin, cval, cbytes, callow, cres, cbytes2>>

CodecNext ==
    \/ CodecSerialize /\ UNCHANGED serverVars
    \/ CodecParse /\ UNCHANGED serverVars
    \/ CodecReserialize /\ UNCHANGED serverVars
    \/ CodecReparse /\ UNCHANGED serverVars

SpecCodec == CodecInit /\ [][CodecNext]_vars

ServerInit == Init /\ CodecIdle

\* what the server does apart from reading a buffer
Serve ==
    \/ \E c \in Conns : Accept(c) /\ UNCHANGED codecVars
    \/ \E c \in Conns : ReadClosed(c) /\ UNCHANGED codecVars
    \/ \E c \in Conns : ReadFailed(c) /\ UNCHANGED codecVars
    \/ \E c \in Conns : ExecPlain(c) /\ UNCHANGED codecVars
    \/ \E c \in Conns : AcquireWrite(c) /\ UNCHANGED codecVars
    \/ \E c \in Conns : AcquireRead(c) /\ UNCHANGED codecVars
    \/ \E c \in Conns : ExecSet(c) /\ UNCHANGED codecVars
    \/ \E c \in Conns : ExecGet(c) /\ UNCHANGED codecVars
    \/ \E c \in Conns : ExecDel(c) /\ UNCHANGED codecVars
    \/ \E c \in Conns : Write(c) /\ UNCHANGED codecVars
    \/ \E c \in Conns : WriteFailed(c) /\ UNCHANGED codecVars

Next ==
    \/ \E c \in Conns, i \in StoreTraffic : Read(c, i) /\ UNCHANGED codecVars
    \/ Serve

Spec == ServerInit /\ [][Next]_vars

NextOdd ==
    \/ \E c \in Conns, i \in OddTraffic : Read(c, i) /\ UNCHANGED codecVars
    \/ Serve

SpecOdd == ServerInit /\ [][NextOdd]_vars

\* the traffic of the clients in the runs checked for progress
FewTraffic == {IdOf(<<reqBatch>>)}

NextFew ==
    \/ \E c \in Conns, i \in FewTraffic : Read(c, i) /\ UNCHANGED codecVars
    \/ Serve

\* connection c takes the next step of execute_commands, that is, the step
\* of ExecPlain, AcquireWrite, AcquireRead, ExecSet, ExecGet or ExecDel,
\* told by what the step does to pc and done: these steps wait for nothing
\* but the scheduler and the store lock
Runs(c) ==
    \/ /\ pc[c] = "exec" /\ Queue(c) # <<>>
       /\ CmdName(c) \notin {strSET, strGET, strDEL}
       /\ done' = [done EXCEPT ![c] = @ + 1] /\ pc' = pc
    \/ /\ pc[c] = "exec" /\ Queue(c) # <<>>
       /\ \/ CmdName(c) \in {strSET, strDEL} /\ can_write(c)
          \/ CmdName(c) = strGET /\ can_read(c)
       /\ pc' = [pc EXCEPT ![c] = "locked"] /\ done' = done
    \/ /\ pc[c] = "locked"
       /\ pc' = [pc EXCEPT ![c] = "exec"] /\ done' = [done EXCEPT ![c] = @ + 1]

\* tokio runs every task that is ready and the RwLock grants every request
\* that can be granted; nothing is assumed of the peers (reads and writes of
\* the sockets may stall forever)
SpecFair ==
    ServerInit /\ [][NextFew]_vars
        /\ \A c \in Conns : WF_<<pc, done>>(Runs(c))

(***************************************************************************)
(* Properties                                                              *)
(***************************************************************************)

\* every request of the chunk is, on its own, a request array
WellFormed(i) ==
    \A j \in 1..Len(ChunkList[i]) : IsArray(parse(ChunkList[i][j], TRUE))

\* C1: on a connection back at its read, one reply was appended for every
\* well-formed request the last read delivered (also when several requests
\* came back to back in that read).
C1_OneReplyPerRequest ==
    \A c \in Conns :
        (pc[c] = "read" /\ buffer[c] # 0 /\ WellFormed(buffer[c]))
            => done[c] = Len(ChunkList[buffer[c]])

\* C2: after one read delivered "SET a 1\r\nGET a\r\n", the connection has
\* written "+OK\r\n" followed by "$1\r\n1\r\n", whatever the store held.
C2_PipelinedSetGet ==
    \A c \in Conns :
        (pc[c] = "read" /\ buffer[c] # 0 /\ ChunkList[buffer[c]] = pipelineSetGet)
            => sent[c] = ser(DString(strOK)) \o ser(DBulkString(<<ZERO + 1>>))

\* the count an Array header "*<N>\r\n" declares, -2 when the bytes do not
\* start with a complete header
DeclaredCount(bytes) ==
    LET ends == {k \in 2..(Len(bytes) - 1) : bytes[k] = CR /\ bytes[k + 1] = LF}
    IN  IF bytes = <<>> \/ Head(bytes) # STAR \/ ends = {} THEN -2
        ELSE LET n == parse_i64(SubSeq(bytes, 2, SetMin(ends) - 1))
             IN  IF n.ok THEN n.i ELSE -2

\* C3: parsing input that starts with an Array header of count N >= 0 gives
\* an Array of exactly N elements or a decode error, never a shorter Array.
C3_ArrayHasDeclaredCount ==
    (cphase = "parsed" /\ corigin = "bytes" /\ DeclaredCount(cbytes) >= 0)
        => \/ cres.k = "err"
           \/ /\ cres.k = "some" /\ cres.v.t = "Array"
              /\ Len(cres.v.a) = DeclaredCount(cbytes)

\* C4: a connection whose last read ended in a decode error is Closed.
C4_DecodeErrorCloses ==
    \A c \in Conns :
        (buffer[c] # 0 /\ messages[buffer[c]].k = "err") => pc[c] = "closed"

\* C5: parse(ser(v)) is Some(v) for every well-formed value v and either
\* allow_pipeline; "$-1\r\n" parses to NullBulkString and "*-1\r\n" to NullArray.
C5_RoundTrip ==
    /\ (corigin = "value" /\ cphase = "parsed") => (cres.k = "some" /\ cres.v = cval)
    /\ (cphase = "parsed" /\ cbytes = <<DOLLAR, MINUS, ZERO + 1, CR, LF>>)
            => (cres.k = "some" /\ cres.v = DNullBulkString)
    /\ (cphase = "parsed" /\ cbytes = <<STAR, MINUS, ZERO + 1, CR, LF>>)
            => (cres.k = "some" /\ cres.v = DNullArray)

\* C5 witness: a nested Array holding an empty Array, a NullBulkString and a
\* BulkString with a two-byte character and CR LF came back from its
\* serialization.
C5_Witness ==
    /\ corigin = "value" /\ cphase = "parsed"
    /\ cval = DArray(<<DArray(<<>>), DNullBulkString, DBulkString(txtYuml \o CRLF)>>)
    /\ cres.k = "some" /\ cres.v = cval

\* C6: whenever parse(b) is Some(v), parse(ser(v)) is Some(v) again.
C6_SerInvertsParse ==
    cphase = "reparsed" => (cres2.k = "some" /\ cres2.v = cres.v)

\* connection c holds a guard of the store for the named command
Executing(c, names) == pc[c] = "locked" /\ CmdName(c) \in names

\* C7: while a SET or DEL executes against the store no other connection
\* executes a GET, SET or DEL against it; a GET that executes does not keep
\* another connection's GET from starting.
C7_WriterExcludesAll ==
    \A c \in Conns : \A d \in Conns \ {c} :
        /\ Executing(c, {strSET, strDEL}) => pc[d] # "locked"
        /\ (/\ Executing(c, {strGET})
            /\ pc[d] = "exec" /\ Queue(d) # <<>> /\ CmdName(d) = strGET)
                => ENABLED AcquireRead(d)

\* C7 witness: a SET executes while another connection has a GET to run.
C7_Witness ==
    \E c \in Conns : \E d \in Conns \ {c} :
        /\ Executing(c, {strSET})
        /\ pc[d] = "exec" /\ Queue(d) # <<>> /\ CmdName(d) = strGET

\* a request array that is one SET with a key and a value
IsFullSet(args) ==
    /\ get_arg(args, 0) = Some(strSET)
    /\ get_arg(args, 1).some /\ get_arg(args, 2).some

\* C8: every key some SET has written (and no DEL removed since) is present
\* in the store with the value of the SET executed last; a connection that
\* has finished a SET carrying key and value has written "+OK\r\n".
C8_LastWriterWins ==
    /\ \A k \in DOMAIN lastSet : k \in DOMAIN store /\ store[k] = lastSet[k]
    /\ \A c \in Conns :
        (/\ pc[c] = "read" /\ buffer[c] # 0
         /\ Pending(buffer[c]) # <<>> /\ IsFullSet(Pending(buffer[c])[1]))
            => SubSeq(sent[c], 1, 5) = <<PLUS, 79, 75, CR, LF>>

\* C8 witness: both connections have finished a SET of key a, with values x
\* and y, both were answered OK, and the store holds the value written last.
C8_Witness ==
    /\ pc[1] = "read" /\ buffer[1] # 0 /\ ChunkList[buffer[1]] = <<reqSetAX>>
    /\ pc[2] = "read" /\ buffer[2] # 0 /\ ChunkList[buffer[2]] = <<reqSetAY>>
    /\ sent[1] = <<PLUS, 79, 75, CR, LF>> /\ sent[2] = sent[1]
    /\ store[kA] = vX /\ lastSet[kA] = vX

\* the step in which connection c runs its command under the guard
ExecStep(c, name) ==
    pc[c] = "locked" /\ CmdName(c) = name /\ pc'[c] = "exec"

\* the reply the step appended to acc
Reply(c) == SubSeq(results'[c], Len(results[c]) + 1, Len(results'[c]))

StringElements(args) ==
    {args[j].s : j \in {n \in 2..Len(args) : args[n].t \in {"String", "BulkString"}}}

\* C10: DEL replies Integer c, c the number of keys the command removed
\* (absent keys and non-string elements do not count); afterwards none of
\* the listed keys is present and every other entry is unchanged.
C10_DelCountsRemoved ==
    [][\A c \in Conns :
        ExecStep(c, strDEL) =>
            /\ DOMAIN store' = DOMAIN store \ StringElements(Args(c))
            /\ \A k \in DOMAIN store' : store'[k] = store[k]
            /\ Reply(c) = ser(DInteger(
                    Cardinality(DOMAIN store \cap StringElements(Args(c)))))]_vars

\* C10 witness: "DEL a 1 a" ran with a and b present: it was answered ":1\r\n",
\* a is gone and b is unchanged.
C10_Witness ==
    \E c \in Conns :
        /\ pc[c] = "read" /\ buffer[c] # 0 /\ ChunkList[buffer[c]] = <<inlDelA1A>>
        /\ sent[c] = <<COLON, ZERO + 1, CR, LF>>
        /\ DOMAIN store = {kB} /\ store[kB] = vX

\* connection c dispatches a command that is none of PING, SET, GET, DEL
UnknownStep(c) ==
    /\ pc[c] = "exec" /\ done'[c] = done[c] + 1
    /\ CmdName(c) \notin {strPING, strSET, strGET, strDEL}

\* C11: an unknown command name is answered with the Error reply
\* "Unknown command", leaves the store unchanged and leaves the connection
\* open; a connection that was answered "Unknown command" before still has
\* its later PING answered "+PONG\r\n" and its later SET without a value
\* answered with the usual error.
C11_UnknownCommand ==
    /\ [][\A c \in Conns :
            UnknownStep(c) =>
                /\ Reply(c) = ser(DError(strUnknownCommand))
                /\ store' = store
                /\ pc'[c] = "exec" /\ exit'[c] = ""]_vars
    /\ [](\A c \in Conns :
            (hadUnknown[c] /\ pc[c] = "read" /\ buffer[c] # 0) =>
                /\ ChunkList[buffer[c]] = <<inlPing>>
                        => sent[c] = ser(DString(strPONG))
                /\ ChunkList[buffer[c]] = <<reqSetNoValue>>
                        => sent[c] = ser(DError(strNoValueProvided)))

\* C11 witness: a connection that was answered "Unknown command" has sent
\* PING afterwards and was answered "+PONG\r\n".
C11_Witness ==
    \E c \in Conns :
        /\ hadUnknown[c] /\ pc[c] = "read"
        /\ buffer[c] # 0 /\ ChunkList[buffer[c]] = <<inlPing>>
        /\ sent[c] = <<PLUS, 80, 79, 78, 71, CR, LF>>

\* C12: parse returns None only at a clean end of input, having consumed
\* nothing: a None result means the source was empty.
C12_NoneOnlyAtCleanEof ==
    (cphase \in {"parsed", "reser", "reparsed"} /\ cres.k = "none")
        => cbytes = <<>>

\* the task of connection c ends on an I/O failure
FailStep(c) == exit[c] = "" /\ exit'[c] \in {"read_error", "write_panic"}

C14_ClosedIsTerminal ==
    /\ [][\A c \in Conns :
            /\ (exit[c] = "" /\ exit'[c] = "eof") => pc'[c] = "closed"
            /\ pc[c] = "closed" =>
                    /\ pc'[c] = "closed" /\ exit'[c] = exit[c]
                    /\ done'[c] = done[c] /\ results'[c] = results[c]
                    /\ sent'[c] = sent[c]]_vars
    /\ [](\A c \in Conns :
            pc[c] = "closed" =>
                /\ writer # c /\ c \notin readers
                /\ results[c] = <<>> /\ sent[c] = <<>>)

\* C14 witness: a peer closed its connection after the server had stored a
\* key, and the other connection is still being served.
C14_Witness ==
    \E c \in Conns, d \in Conns :
        /\ exit[c] = "eof" /\ pc[c] = "closed"
        /\ store # HashMapStore_new /\ pc[d] = "exec"

\* C15: a connection holds a guard only while it is inside one store command
\* (never while it waits for a read or writes its replies), and the guard is
\* released by the step that performs the command; with the tasks scheduled
\* fairly, every buffer of commands that was read is dispatched to its end,
\* whatever the other connections and their peers do.
C15_NoLockWhileWaiting ==
    /\ [](\A c \in Conns :
            pc[c] # "locked" => (writer # c /\ c \notin readers))
    /\ [][\A c \in Conns :
            pc[c] = "locked" =>
                \/ pc'[c] = "locked" /\ done'[c] = done[c]
                \/ /\ done'[c] = done[c] + 1
                   /\ writer' # c /\ c \notin readers']_vars
    /\ \A c \in Conns :
            (pc[c] \in {"exec", "locked"} /\ Queue(c) # <<>>)
                ~> (pc[c] = "exec" /\ Queue(c) = <<>>)

\* C15 witness: a connection waits for the write guard while another one
\* holds a read guard.
C15_Witness ==
    \E c \in Conns, d \in Conns :
        /\ pc[c] = "exec" /\ Queue(c) # <<>> /\ CmdName(c) \in {strSET, strDEL}
        /\ pc[d] = "locked" /\ d \in readers

\* the lead bytes of the type-prefixed values
LeadBytes == {PLUS, MINUS, COLON, DOLLAR, STAR}

HasCRLF(bytes) ==
    \E j \in 1..(Len(bytes) - 1) : bytes[j] = CR /\ bytes[j + 1] = LF

\* the bytes before the first CR LF, or all of them when there is none
LineOf(bytes) ==
    IF HasCRLF(bytes)
    THEN LET j == CHOOSE j \in 1..(Len(bytes) - 1) :
                    /\ bytes[j] = CR /\ bytes[j + 1] = LF
                    /\ \A k \in 1..(j - 1) : ~(bytes[k] = CR /\ bytes[k + 1] = LF)
         IN  SubSeq(bytes, 1, j - 1)
    ELSE bytes

\* C16: when the line after a type byte has no CR LF before the input ends,
\* parse fails with MissingCRLF.
C16_MissingCRLF ==
    (/\ cphase = "parsed" /\ cbytes # <<>>
     /\ Head(cbytes) \in LeadBytes /\ ~HasCRLF(Tail(cbytes)))
        => (cres.k = "err" /\ cres.e = "MissingCRLF")

\* the text of the first line of an input: what follows the type byte of a
\* SimpleString or an Error, or the lead byte and what follows it of an
\* inline line
TextOf(bytes) ==
    IF Head(bytes) \in {PLUS, MINUS} THEN LineOf(Tail(bytes))
    ELSE <<Head(bytes)>> \o LineOf(Tail(bytes))

\* C17: when the text of a SimpleString, of an Error or of an inline line is
\* not valid UTF-8, parse fails with the Utf8 error.
C17_InvalidText ==
    (/\ cphase = "parsed" /\ cbytes # <<>>
     /\ \/ Head(cbytes) \in {PLUS, MINUS}
        \/ callow /\ Head(cbytes) \notin LeadBytes
     /\ ~from_utf8(TextOf(cbytes)).ok)
        => (cres.k = "err" /\ cres.e = "Utf8")

\* the tokens of an inline line: the lead byte and the rest of the line,
\* split on single spaces, without the empty tokens
InlineTokens(bytes) == split_space(<<Head(bytes)>> \o LineOf(Tail(bytes)), <<>>)

\* a token is read as an Integer when it parses as one, else as a String
IsToken(item, token) ==
    IF parse_i64(token).ok
    THEN item = DInteger(parse_i64(token).i)
    ELSE item.t = "String" /\ into_bytes(item.s) = token

\* C20: with allow_inline, a line whose lead byte is no type byte parses to
\* the Array of its tokens, in order; and an input that starts an array
\* parses the same with and without allow_inline, the elements being parsed
\* without it.
C20_InlineTokens ==
    /\ (cphase = "parsed" /\ callow /\ cbytes # <<>>
            /\ Head(cbytes) \notin LeadBytes) =>
            /\ cres.k = "some" /\ cres.v.t = "Array"
            /\ Len(cres.v.a) = Len(InlineTokens(cbytes))
            /\ \A j \in 1..Len(cres.v.a) :
                    IsToken(cres.v.a[j], InlineTokens(cbytes)[j])
    /\ (cphase = "parsed" /\ cbytes # <<>> /\ Head(cbytes) = STAR) =>
            cres = parse(cbytes, FALSE)

\* the buffer that connection c read last is the one request r
LastRead(c, r) == buffer[c] # 0 /\ ChunkList[buffer[c]] = <<r>>

\* the replies a batch of SET a x, GET a, DEL a, PING can get, the other
\* connections running the same commands in between
BatchReplies ==
    {ser(DString(strOK)) \o g \o d \o ser(DString(strPONG)) :
        g \in {ser(DBulkString(vX)), ser(DNullBulkString)},
        d \in {ser(DInteger(0)), ser(DInteger(1))}}

\* C18: a top-level Array whose element 0 is no command name is a batch:
\* its nested Arrays are dispatched one by one in element order, each with
\* its own reply, the replies written in that order; the empty Array
\* dispatches nothing; a parsed value that is not an Array is not dispatched:
\* no reply and no store access.
C18_BatchDispatch ==
    /\ [](\A c \in Conns :
            /\ (LastRead(c, reqBatch) /\ Queue(c) # <<>>)
                    => Args(c) = batchCommands[done[c] + 1].a
            /\ (LastRead(c, reqBatch) /\ Queue(c) = <<>>)
                    => done[c] = Len(batchCommands)
            /\ (LastRead(c, reqBatch) /\ pc[c] = "read")
                    => sent[c] \in BatchReplies
            /\ LastRead(c, reqEmpty)
                    => (done[c] = 0 /\ results[c] = <<>> /\ sent[c] = <<>>)
            /\ LastRead(c, respOK)
                    => /\ pc[c] = "read" /\ done[c] = 0
                       /\ results[c] = <<>> /\ sent[c] = <<>>
                       /\ writer # c /\ c \notin readers)
    /\ [][\A c \in Conns :
            (LastRead(c, respOK)' /\ ~LastRead(c, respOK)) => store' = store]_vars

\* C18 witness: a batch was answered "+OK\r\n$1\r\nx\r\n:1\r\n+PONG\r\n".
C18_Witness ==
    \E c \in Conns :
        /\ LastRead(c, reqBatch) /\ pc[c] = "read"
        /\ sent[c] = <<PLUS, 79, 75, CR, LF, DOLLAR, ZERO + 1, CR, LF, 120, CR, LF,
                       COLON, ZERO + 1, CR, LF, PLUS, 80, 79, 78, 71, CR, LF>>

\* connection c dispatches PING
PingStep(c) ==
    pc[c] = "exec" /\ done'[c] = done[c] + 1 /\ CmdName(c) = strPING

\* C19: SET without a key replies Error "No key provided", SET with a key
\* and without a value replies Error "No value provided", GET without a key
\* replies an Error; these requests, PING and every GET leave the store as
\* it was.
C19_MissingArguments ==
    [][\A c \in Conns :
        /\ (ExecStep(c, strSET) /\ ~get_arg(Args(c), 1).some) =>
                /\ Reply(c) = ser(DError(strNoKeyProvided))
                /\ store' = store
        /\ (ExecStep(c, strSET) /\ get_arg(Args(c), 1).some
                /\ ~get_arg(Args(c), 2).some) =>
                /\ Reply(c) = ser(DError(strNoValueProvided))
                /\ store' = store
        /\ (ExecStep(c, strGET) /\ ~get_arg(Args(c), 1).some) =>
                /\ Reply(c) # <<>> /\ Head(Reply(c)) = MINUS
        /\ ExecStep(c, strGET) => store' = store
        /\ PingStep(c) => store' = store]_vars

\* C19 witness: with a key stored, a SET with a key and no value was
\* answered "-No value provided\r\n".
C19_Witness ==
    \E c \in Conns :
        /\ LastRead(c, reqSetNoValue) /\ pc[c] = "read"
        /\ sent[c] = ser(DError(strNoValueProvided))
        /\ store # HashMapStore_new
====
